---- MODULE Spec2Model ----
(***************************************************************************)
(* A model of gitsbe/model/BooleanModel.py: the Boolean-equation data      *)
(* model, its text rendering and parsing, the binary codec, perturbation,  *)
(* cloning and the aggregation of attractors into the global output.       *)
(*                                                                         *)
(* Text is a sequence of one-character strings, so that str.strip,         *)
(* str.replace, str.split and str.join are modelled by what they do.       *)
(* A node name is a text.  A Python dict is a sequence of <<key, value>>   *)
(* pairs in insertion order with unique keys.  A Python float that the     *)
(* code computes is an exact fraction <<numerator, denominator>>.          *)
(***************************************************************************)
EXTENDS Integers, Sequences, FiniteSets, TLC

VARIABLES
    boolean_equations,          \* self._boolean_equations
    updated_boolean_equations,  \* self._updated_boolean_equations
    same_list,                  \* the two attributes above are one list object
    binary_boolean_equations,   \* self._binary_boolean_equations
    mutation_type,              \* self._mutation_type
    is_bnet_file,               \* self._is_bnet_file
    bnet_equations,             \* self._bnet_equations
    attractors,                 \* self._attractors
    global_output,              \* self._global_output
    raised                      \* the exception the last call raised, "" if none

vars == <<boolean_equations, updated_boolean_equations, same_list,
          binary_boolean_equations, mutation_type, is_bnet_file,
          bnet_equations, attractors, global_output, raised>>

(***************************************************************************)
(* Bounds of the model.                                                    *)
(***************************************************************************)
MaxTotalRegs == 3   \* regulators of a topology source, over all its nodes
MaxGivenRegs == 2   \* regulators of a rule file or an explicit equation list
MaxNames == 1       \* node names per perturb_nodes call
MaxDrugs == 1       \* perturbation specs per apply/add_perturbations call
MaxAttractors == 2  \* attractors the solver returns
MaxExtraBits == 1   \* bits a vector may have beyond the required length
MaxMutations == 1   \* num_mutations of a generate_mutated_lists call
MaxMutationsPerList == 1  \* num_mutations_per_list of such a call

(***************************************************************************)
(* Sequences and text.                                                     *)
(***************************************************************************)
RECURSIVE Flatten(_)
Flatten(ss) == IF ss = <<>> THEN <<>> ELSE Head(ss) \o Flatten(Tail(ss))

RECURSIVE Join(_, _)
Join(sep, parts) ==
    IF parts = <<>> THEN <<>>
    ELSE IF Len(parts) = 1 THEN Head(parts)
    ELSE Head(parts) \o sep \o Join(sep, Tail(parts))

Slice(s, from, to) ==
    LET lo == IF from < 0 THEN 0 ELSE from
        hi == IF to > Len(s) THEN Len(s) ELSE to
    IN  IF hi <= lo THEN <<>> ELSE SubSeq(s, lo + 1, hi)

IsSpace(c) == c \in {" ", "\n", "\t"}

RECURSIVE LStrip(_)
LStrip(s) == IF s # <<>> /\ IsSpace(Head(s)) THEN LStrip(Tail(s)) ELSE s

RECURSIVE RStrip(_)
RStrip(s) ==
    IF s # <<>> /\ IsSpace(s[Len(s)]) THEN RStrip(SubSeq(s, 1, Len(s) - 1)) ELSE s

Strip(s) == RStrip(LStrip(s))

StartsWith(s, p) == Len(s) >= Len(p) /\ SubSeq(s, 1, Len(p)) = p

RECURSIVE Replace(_, _, _)
Replace(s, old, new) ==
    IF s = <<>> THEN <<>>
    ELSE IF StartsWith(s, old)
         THEN new \o Replace(SubSeq(s, Len(old) + 1, Len(s)), old, new)
         ELSE <<Head(s)>> \o Replace(Tail(s), old, new)

RECURSIVE TakeWord(_)
TakeWord(s) ==
    IF s = <<>> \/ IsSpace(Head(s)) THEN <<>> ELSE <<Head(s)>> \o TakeWord(Tail(s))

RECURSIVE Split(_)
Split(s) ==
    LET t == LStrip(s)
        w == TakeWord(t)
    IN  IF t = <<>> THEN <<>>
        ELSE <<w>> \o Split(SubSeq(t, Len(w) + 1, Len(t)))

(***************************************************************************)
(* Dicts.                                                                  *)
(***************************************************************************)
Keys(d) == [i \in 1..Len(d) |-> d[i][1]]
Values(d) == [i \in 1..Len(d) |-> d[i][2]]
HasKey(d, k) == \E i \in 1..Len(d) : d[i][1] = k
DictSet(d, k, v) ==
    IF HasKey(d, k)
    THEN [i \in 1..Len(d) |-> IF d[i][1] = k THEN <<k, v>> ELSE d[i]]
    ELSE Append(d, <<k, v>>)
Zip(ks, vs) ==
    [i \in 1..(IF Len(ks) < Len(vs) THEN Len(ks) ELSE Len(vs)) |-> <<ks[i], vs[i]>>]

(***************************************************************************)
(* Equations: the tuple (target, activating, inhibitory, act_operators,    *)
(* inhib_operators, link) as a record.  link is "and", "or" or "".         *)
(***************************************************************************)
Equation(target, activating, inhibitory, act_operators, inhib_operators, link) ==
    [target |-> target, activating |-> activating, inhibitory |-> inhibitory,
     act_operators |-> act_operators, inhib_operators |-> inhib_operators,
     link |-> link]

TokAssign == <<"*", "=">>
TokNot == <<"n", "o", "t">>
TokAnd == <<"a", "n", "d">>
TokOr == <<"o", "r">>

(* create_equation_from_interaction: the loops over the two regulator      *)
(* lists, each setting dict[regulator] = 1 and appending 'or' for every    *)
(* regulator but the last.                                                 *)
RECURSIVE RegulatorDict(_, _)
RegulatorDict(regs, d) ==
    IF regs = <<>> THEN d ELSE RegulatorDict(Tail(regs), DictSet(d, Head(regs), 1))

RegulatorOperators(regs) ==
    SelectSeq([i \in 1..Len(regs) |-> IF i - 1 < Len(regs) - 1 THEN TokOr ELSE <<>>],
              LAMBDA o : o # <<>>)

(* The mutant of TopologyLink: "and" as soon as one group has a regulator. *)
TopologyLinkEitherGroup(tmp_activating_regulators, tmp_inhibitory_regulators) ==
    IF tmp_activating_regulators = <<>> /\ tmp_inhibitory_regulators = <<>>
    THEN "" ELSE "and"

TopologyLink(tmp_activating_regulators, tmp_inhibitory_regulators) ==
    IF tmp_activating_regulators = <<>> \/ tmp_inhibitory_regulators = <<>>
    THEN "" ELSE "and"

create_equation_from_interaction(interaction, interaction_index) ==
    LET it == interaction[interaction_index]
    IN  Equation(it.target,
                 RegulatorDict(it.activating, <<>>),
                 RegulatorDict(it.inhibitory, <<>>),
                 RegulatorOperators(it.activating),
                 RegulatorOperators(it.inhibitory),
                 TopologyLink(it.activating, it.inhibitory))

(* to_bnet_format, one equation: the body of its loop.                     *)
LinkOperator(link) ==
    CASE link = "and" -> <<"&">>
      [] link = "or" -> <<"|">>
      [] OTHER -> <<>>

ActivationTerms(activating_regulators) ==
    Keys(SelectSeq(activating_regulators, LAMBDA kv : kv[2] = 1))

InhibitionTerms(inhibitory_regulators) ==
    LET ks == Keys(SelectSeq(inhibitory_regulators, LAMBDA kv : kv[2] = 1))
    IN  [i \in 1..Len(ks) |-> <<"!">> \o ks[i]]

CombinedExpression(activation_expression, inhibition_expression, link_operator) ==
    IF activation_expression # <<>> /\ inhibition_expression # <<>>
    THEN activation_expression \o <<" ">> \o link_operator \o <<" ">>
         \o inhibition_expression
    ELSE IF activation_expression # <<>> THEN activation_expression
    ELSE IF inhibition_expression # <<>> THEN inhibition_expression
    ELSE <<"0">>

BnetLine(eq) ==
    LET target_value == eq.target \o <<",", " ">>
        activation_expression ==
            Join(<<" ", "|", " ">>, ActivationTerms(eq.activating))
        inhibition_expression ==
            Join(<<" ", "|", " ">>, InhibitionTerms(eq.inhibitory))
        combined_expression ==
            CombinedExpression(activation_expression, inhibition_expression,
                               LinkOperator(eq.link))
        equation_line == Strip(target_value) \o <<" ">> \o Strip(combined_expression)
    IN  Replace(Replace(equation_line, <<"(">>, <<>>), <<")">>, <<>>)

to_bnet_format(equations) ==
    Join(<<"\n">>, [i \in 1..Len(equations) |-> BnetLine(equations[i])])

(* _create_equation_from_bnet: the replacements and the split, the check   *)
(* of the second token, the scan of the remaining tokens.                  *)
BnetTokens(equation_str) ==
    Split(Replace(Replace(Replace(Replace(Strip(equation_str),
        <<",", " ">>, <<" ", "*", "=", " ">>),
        <<"!">>, <<" ", "n", "o", "t", " ">>),
        <<"&">>, <<" ", "a", "n", "d", " ">>),
        <<"|">>, <<" ", "o", "r", " ">>))

BnetError(equation_str) ==
    LET split_arg == BnetTokens(equation_str)
    IN  IF Len(split_arg) < 2 THEN "IndexError"
        ELSE IF split_arg[2] # TokAssign THEN "ValueError"
        ELSE ""

ScanStart ==
    [activating |-> <<>>, inhibitory |-> <<>>, act_operators |-> <<>>,
     inhib_operators |-> <<>>, before_not |-> TRUE]

ScanToken(st, regulator) ==
    IF regulator = TokNot THEN [st EXCEPT !.before_not = ~st.before_not]
    ELSE IF regulator \in {TokAnd, TokOr}
    THEN IF st.before_not
         THEN [st EXCEPT !.act_operators = Append(@, regulator)]
         ELSE [st EXCEPT !.inhib_operators = Append(@, regulator)]
    ELSE IF regulator \in {<<"(">>, <<")">>} THEN st
    ELSE IF st.before_not
         THEN [st EXCEPT !.activating = DictSet(@, regulator, 1)]
         ELSE [st EXCEPT !.inhibitory = DictSet(@, regulator, 1),
                         !.before_not = TRUE]

RECURSIVE Scan(_, _)
Scan(st, split_arg) ==
    IF split_arg = <<>> THEN st
    ELSE Scan(ScanToken(st, Head(split_arg)), Tail(split_arg))

ParsedLink(activating_regulators, inhibitory_regulators) ==
    IF activating_regulators = <<>> \/ inhibitory_regulators = <<>>
    THEN "" ELSE "and"

create_equation_from_bnet(equation_str) ==
    LET split_arg == BnetTokens(equation_str)
        st == Scan(ScanStart, SubSeq(split_arg, 3, Len(split_arg)))
    IN  Equation(split_arg[1], st.activating, st.inhibitory, st.act_operators,
                 st.inhib_operators, ParsedLink(st.activating, st.inhibitory))

(***************************************************************************)
(* The binary codec.                                                       *)
(***************************************************************************)
MutationTypes == {"topology", "balanced", "mixed"}

LinkBit(link) == IF link = "and" THEN 1 ELSE 0

(* to_binary: the bits one equation contributes (the body of its loop).    *)
EquationBits(eq, mt) ==
    CASE mt = "topology" -> Values(eq.activating) \o Values(eq.inhibitory)
      [] mt = "balanced" ->
            IF eq.link # "" THEN <<LinkBit(eq.link)>> ELSE <<>>
      [] mt = "mixed" ->
            Values(eq.activating) \o Values(eq.inhibitory)
            \o (IF eq.link = "and" THEN <<1>>
                ELSE IF eq.link = "or" THEN <<0>> ELSE <<>>)
      [] OTHER -> <<>>

Encode(equations, mt) ==
    Flatten([i \in 1..Len(equations) |-> EquationBits(equations[i], mt)])

(* from_binary: one iteration of its loop.  The result is the equation     *)
(* appended, the index after it and whether binary_representation[index]   *)
(* was read out of range.                                                  *)
(* The mutant of NewLink: the two links the other way round. *)
NewLinkSwapped(link_value) == IF link_value = 1 THEN "or" ELSE "and"

NewLink(link_value) == IF link_value = 1 THEN "and" ELSE "or"

DecodeTopology(eq, binary_representation, index) ==
    LET num_activating == Len(eq.activating)
        num_inhibitory == Len(eq.inhibitory)
        new_activating_values ==
            Slice(binary_representation, index, index + num_activating)
        index2 == index + num_activating
        new_inhibitory_values ==
            Slice(binary_representation, index2, index2 + num_inhibitory)
    IN  [eq |-> <<[eq EXCEPT
                    !.activating = Zip(Keys(eq.activating), new_activating_values),
                    !.inhibitory = Zip(Keys(eq.inhibitory), new_inhibitory_values)]>>,
         index |-> index2 + num_inhibitory,
         error |-> FALSE]

(* The mutant of DecodeBalanced: a link bit beyond the end of the vector    *)
(* is skipped and the equation passes through.                             *)
DecodeBalancedSkipping(eq, binary_representation, index) ==
    IF eq.link # "" /\ index < Len(binary_representation)
    THEN [eq |-> <<[eq EXCEPT !.link = NewLink(binary_representation[index + 1])]>>,
          index |-> index + 1, error |-> FALSE]
    ELSE [eq |-> <<eq>>, index |-> index, error |-> FALSE]

DecodeBalanced(eq, binary_representation, index) ==
    IF eq.link # ""
    THEN IF index >= Len(binary_representation)
         THEN [eq |-> <<>>, index |-> index, error |-> TRUE]
         ELSE [eq |-> <<[eq EXCEPT !.link = NewLink(binary_representation[index + 1])]>>,
               index |-> index + 1, error |-> FALSE]
    ELSE [eq |-> <<eq>>, index |-> index, error |-> FALSE]

DecodeMixed(eq, binary_representation, index) ==
    LET flags == DecodeTopology(eq, binary_representation, index)
    IN  IF eq.link # ""
        THEN IF flags.index >= Len(binary_representation)
             THEN [eq |-> <<>>, index |-> flags.index, error |-> TRUE]
             ELSE [eq |-> <<[flags.eq[1] EXCEPT
                              !.link = NewLink(binary_representation[flags.index + 1])]>>,
                   index |-> flags.index + 1, error |-> FALSE]
        ELSE flags

DecodeEquation(eq, binary_representation, index, mt) ==
    CASE mt = "topology" -> DecodeTopology(eq, binary_representation, index)
      [] mt = "balanced" -> DecodeBalanced(eq, binary_representation, index)
      [] mt = "mixed" -> DecodeMixed(eq, binary_representation, index)
      [] OTHER -> [eq |-> <<>>, index |-> index, error |-> FALSE]

(* from_binary: the loop.  error is "IndexError" when the loop raised, and *)
(* then the assignment to self._updated_boolean_equations is not reached.  *)
RECURSIVE DecodeLoop(_, _, _, _, _)
DecodeLoop(equations, binary_representation, mt, index, updated_equations) ==
    IF equations = <<>> THEN [equations |-> updated_equations, error |-> ""]
    ELSE LET step == DecodeEquation(Head(equations), binary_representation, index, mt)
         IN  IF step.error THEN [equations |-> updated_equations, error |-> "IndexError"]
             ELSE DecodeLoop(Tail(equations), binary_representation, mt, step.index,
                             updated_equations \o step.eq)

Decode(equations, binary_representation, mt) ==
    DecodeLoop(equations, binary_representation, mt, 0, <<>>)

(* The length from_binary consumes on the given equations. *)
RequiredLength(equations, mt) == Len(Encode(equations, mt))

(***************************************************************************)
(* Perturbation.                                                           *)
(***************************************************************************)
EffectValue(effect) == IF effect = "inhibits" THEN <<"0">> ELSE <<"1">>

FirstIndex(equations, node) ==
    IF \E i \in 1..Len(equations) : equations[i].target = node
    THEN CHOOSE i \in 1..Len(equations) :
            /\ equations[i].target = node
            /\ \A j \in 1..(i - 1) : equations[j].target # node
    ELSE 0

(* The mutant of PerturbNode: the constant is added to the activating      *)
(* regulators, the rest of the equation is kept.                           *)
PerturbNodeKeepingRest(equations, node, value) ==
    LET i == FirstIndex(equations, node)
    IN  IF i = 0 THEN equations
        ELSE [equations EXCEPT ![i].activating = DictSet(@, value, 1)]

PerturbNode(equations, node, value) ==
    LET i == FirstIndex(equations, node)
    IN  IF i = 0 THEN equations
        ELSE [equations EXCEPT ![i] = Equation(node, <<<<value, 1>>>>, <<>>, <<>>, <<>>, "")]

RECURSIVE PerturbAll(_, _, _)
PerturbAll(equations, node_names, effect) ==
    IF node_names = <<>> THEN equations
    ELSE PerturbAll(PerturbNode(equations, Head(node_names), EffectValue(effect)),
                    Tail(node_names), effect)

RECURSIVE ApplyDrugs(_, _)
ApplyDrugs(equations, drugs) ==
    IF drugs = <<>> THEN equations
    ELSE ApplyDrugs(PerturbAll(equations, Head(drugs).targets, Head(drugs).effect),
                    Tail(drugs))

(***************************************************************************)
(* Construction.  Each operator gives the attributes its method sets.      *)
(***************************************************************************)
init_from_model(model) ==
    LET eqs == [i \in 1..Len(model) |-> create_equation_from_interaction(model, i)]
    IN  [boolean_equations |-> eqs, updated_boolean_equations |-> eqs,
         same_list |-> FALSE, is_bnet_file |-> FALSE, bnet_equations |-> <<>>]

SkippedLine(line) ==
    \/ StartsWith(Strip(line), <<"#">>)
    \/ StartsWith(Strip(line), <<"t", "a", "r", "g", "e", "t", "s">>)
    \/ Strip(line) = <<>>

init_from_bnet_file(lines) ==
    LET kept == SelectSeq(lines, LAMBDA line : ~SkippedLine(line))
        eqs == [i \in 1..Len(kept) |-> create_equation_from_bnet(Strip(kept[i]))]
    IN  [boolean_equations |-> eqs, updated_boolean_equations |-> eqs,
         same_list |-> FALSE, is_bnet_file |-> kept # <<>>,
         bnet_equations |->
            Flatten([i \in 1..Len(kept) |-> Strip(kept[i]) \o <<"\n">>])]

init_from_equations(variable) ==
    [boolean_equations |-> variable, updated_boolean_equations |-> variable,
     same_list |-> TRUE, is_bnet_file |-> FALSE, bnet_equations |-> <<>>]

(* __init__: the attributes after the source-specific initialiser and the  *)
(* closing to_binary(self._mutation_type), which overwrites binary.        *)
NewModel(src, mt, binary) ==
    [boolean_equations |-> src.boolean_equations,
     updated_boolean_equations |-> src.updated_boolean_equations,
     same_list |-> src.same_list,
     binary_boolean_equations |-> Encode(src.updated_boolean_equations, mt),
     mutation_type |-> mt,
     is_bnet_file |-> src.is_bnet_file,
     bnet_equations |-> src.bnet_equations,
     attractors |-> <<>>,
     global_output |-> <<0, 1>>]

(* clone: BooleanModel(equations=updated.copy(), binary=binary.copy(), ...) *)
CloneOf(updated, binary, mt) == NewModel(init_from_equations(updated), mt, binary)

(***************************************************************************)
(* Inputs: topology sources, rule files, node-name lists, drugs.           *)
(***************************************************************************)
N(c) == <<c>>
Targets == <<N("A"), N("B")>>
UnknownName == N("Z")

SeqsUpTo(S, n) == UNION {[1..k -> S] : k \in 0..n}
Injective(s) == \A i, j \in 1..Len(s) : i # j => s[i] # s[j]
Prefixes(s, n) == {SubSeq(s, 1, k) : k \in 0..(IF n < Len(s) THEN n ELSE Len(s))}

(* The regulator lists of a node: the activating ones a prefix of one      *)
(* order of the names, the inhibitory ones a prefix of another.            *)
ActivatingOrder == <<N("A"), N("B"), N("C"), N("D")>>
InhibitoryOrder == <<N("B"), N("A"), N("E"), N("C")>>

Interactions(target, n) ==
    {[target |-> target, activating |-> a, inhibitory |-> b] :
        a \in Prefixes(ActivatingOrder, n), b \in Prefixes(InhibitoryOrder, n)}

RECURSIVE TotalRegs(_)
TotalRegs(model) ==
    IF model = <<>> THEN 0
    ELSE Len(Head(model).activating) + Len(Head(model).inhibitory)
         + TotalRegs(Tail(model))

Topologies(n) ==
    {t \in {<<x, y>> : x \in Interactions(Targets[1], n),
                       y \in Interactions(Targets[2], n)} :
        TotalRegs(t) <= n}

HeaderLine == <<"t", "a", "r", "g", "e", "t", "s", ",", " ", "f", "a", "c", "t",
                "o", "r", "s", "\n">>

(* A rule file for a topology: a header line, then one line per node, the  *)
(* activating and inhibitory clauses joined by the given link operator.    *)
RuleFile(model, link) ==
    LET eqs == init_from_model(model).boolean_equations
        written == [i \in 1..Len(eqs) |->
                        IF eqs[i].link = "" THEN eqs[i] ELSE [eqs[i] EXCEPT !.link = link]]
    IN  <<HeaderLine>> \o [i \in 1..Len(written) |-> BnetLine(written[i]) \o <<"\n">>]

RuleFiles == {RuleFile(t, l) : t \in Topologies(MaxGivenRegs), l \in {"and", "or"}}

InitialSources ==
    {init_from_model(t) : t \in Topologies(MaxTotalRegs)}
    \cup {init_from_bnet_file(f) : f \in RuleFiles}
    \cup {init_from_equations(init_from_model(t).boolean_equations) :
            t \in Topologies(MaxGivenRegs)}

NodeNames == {Targets[i] : i \in 1..Len(Targets)} \cup {UnknownName}
NameLists == {s \in SeqsUpTo(NodeNames, MaxNames) : s # <<>> /\ Injective(s)}
Effects == {"inhibits", "activates"}
Drugs == [targets : NameLists, effect : Effects]
DrugLists == SeqsUpTo(Drugs, MaxDrugs)
BitVectors(n) == [1..n -> {0, 1}]
Tools == {"mpbn_trapspaces", "pyboolnet_trapspaces"}
MpbnTools == {"mpbn_trapspaces"}

(***************************************************************************)
(* The state machine.                                                      *)
(***************************************************************************)
Constructed(m) ==
    /\ boolean_equations = m.boolean_equations
    /\ updated_boolean_equations = m.updated_boolean_equations
    /\ same_list = m.same_list
    /\ binary_boolean_equations = m.binary_boolean_equations
    /\ mutation_type = m.mutation_type
    /\ is_bnet_file = m.is_bnet_file
    /\ bnet_equations = m.bnet_equations
    /\ attractors = m.attractors
    /\ global_output = m.global_output
    /\ raised = ""

Init ==
    \E src \in InitialSources, mt \in MutationTypes : Constructed(NewModel(src, mt, <<>>))

(* A store into self._updated_boolean_equations[i] is a store into         *)
(* self._boolean_equations[i] when the two are one list.                   *)
StoreItems(equations) ==
    /\ updated_boolean_equations' = equations
    /\ boolean_equations' = IF same_list THEN equations ELSE boolean_equations
    /\ same_list' = same_list

PerturbNodes(node_names, effect) ==
    /\ StoreItems(PerturbAll(updated_boolean_equations, node_names, effect))
    /\ raised' = ""
    /\ UNCHANGED <<binary_boolean_equations, mutation_type, is_bnet_file,
                   bnet_equations, attractors, global_output>>

ApplyPerturbations(drugs) ==
    /\ StoreItems(ApplyDrugs(updated_boolean_equations, drugs))
    /\ raised' = ""
    /\ UNCHANGED <<binary_boolean_equations, mutation_type, is_bnet_file,
                   bnet_equations, attractors, global_output>>

(* add_perturbations also keeps the list in self._perturbations, which no  *)
(* method reads; that attribute is not part of the state here.             *)
AddPerturbations(drugs) ==
    /\ StoreItems(ApplyDrugs(updated_boolean_equations, drugs))
    /\ raised' = ""
    /\ UNCHANGED <<binary_boolean_equations, mutation_type, is_bnet_file,
                   bnet_equations, attractors, global_output>>

FromBinary(binary_representation, mt) ==
    LET res == Decode(updated_boolean_equations, binary_representation, mt)
    IN  /\ raised' = res.error
        /\ IF res.error = ""
           THEN /\ updated_boolean_equations' = res.equations
                /\ same_list' = FALSE
           ELSE UNCHANGED <<updated_boolean_equations, same_list>>
        /\ UNCHANGED <<boolean_equations, binary_boolean_equations, mutation_type,
                       is_bnet_file, bnet_equations, attractors, global_output>>

ToBinary(mt) ==
    /\ binary_boolean_equations' = Encode(updated_boolean_equations, mt)
    /\ raised' = ""
    /\ UNCHANGED <<boolean_equations, updated_boolean_equations, same_list,
                   mutation_type, is_bnet_file, bnet_equations, attractors,
                   global_output>>

(* clone builds a new object and leaves this one as it is; CloneOf is the  *)
(* object it returns.                                                      *)
Clone ==
    /\ raised' = ""
    /\ UNCHANGED <<boolean_equations, updated_boolean_equations, same_list,
                   binary_boolean_equations, mutation_type, is_bnet_file,
                   bnet_equations, attractors, global_output>>

(* The text _calculate_attractors_mpbn / _pyboolnet hand to the solver.    *)
SolverText ==
    IF is_bnet_file THEN bnet_equations ELSE to_bnet_format(updated_boolean_equations)

CalculateAttractors(attractor_tool, found) ==
    /\ is_bnet_file' = FALSE
    /\ attractors' = found
    /\ raised' = ""
    /\ UNCHANGED <<boolean_equations, updated_boolean_equations, same_list,
                   binary_boolean_equations, mutation_type, bnet_equations,
                   global_output>>

ResetAttractors ==
    /\ attractors' = <<>>
    /\ raised' = ""
    /\ UNCHANGED <<boolean_equations, updated_boolean_equations, same_list,
                   binary_boolean_equations, mutation_type, is_bnet_file,
                   bnet_equations, global_output>>

(***************************************************************************)
(* calculate_global_output.  A node state is <<"int", 0>>, <<"int", 1>> or *)
(* <<"str", "-">>.  The accumulator is kept doubled, so that the state     *)
(* value 0.5 is the integer 1.                                             *)
(***************************************************************************)
(* The mutant of StateValue2: a don't-care state counts as 0. *)
StateValue2DontCareZero(node_state) ==
    IF node_state \in {<<"int", 0>>, <<"int", 1>>} THEN 2 * node_state[2] ELSE 0

StateValue2(node_state) ==
    IF node_state \in {<<"int", 0>>, <<"int", 1>>} THEN 2 * node_state[2] ELSE 1

DictGet(d, k) == d[CHOOSE i \in 1..Len(d) : d[i][1] = k][2]

RECURSIVE AttractorSum2(_, _)
AttractorSum2(attractor, items) ==
    IF items = <<>> THEN 0
    ELSE (IF HasKey(attractor, Head(items)[1])
          THEN StateValue2(DictGet(attractor, Head(items)[1])) * Head(items)[2]
          ELSE 0)
         + AttractorSum2(attractor, Tail(items))

RECURSIVE PredSum2(_, _)
PredSum2(found, items) ==
    IF found = <<>> THEN 0
    ELSE AttractorSum2(Head(found), items) + PredSum2(Tail(found), items)

(* pred_global_output /= len(self._attractors), as a fraction. *)
PredGlobalOutput(found, items) == <<PredSum2(found, items), 2 * Len(found)>>

FracSub(f, m) == <<f[1] - m * f[2], f[2]>>
FracDiv(f, k) == IF k < 0 THEN <<-f[1], f[2] * (-k)>> ELSE <<f[1], f[2] * k>>

Normalized(pred, min_output, max_output) ==
    FracDiv(FracSub(pred, min_output), max_output - min_output)

(* The mutant of GlobalOutputError: no check for attractors, so that the   *)
(* division by their number is what fails.                                 *)
GlobalOutputErrorUnchecked(found, model_outputs, normalized) ==
    IF found = <<>> THEN "ZeroDivisionError"
    ELSE IF normalized /\ model_outputs.max_output - model_outputs.min_output = 0
    THEN "ZeroDivisionError"
    ELSE ""

GlobalOutputError(found, model_outputs, normalized) ==
    IF found = <<>> THEN "ValueError"
    ELSE IF normalized /\ model_outputs.max_output - model_outputs.min_output = 0
    THEN "ZeroDivisionError"
    ELSE ""

GlobalOutputValue(found, model_outputs, normalized) ==
    LET pred == PredGlobalOutput(found, model_outputs.model_outputs)
    IN  IF normalized
        THEN Normalized(pred, model_outputs.min_output, model_outputs.max_output)
        ELSE pred

CalculateGlobalOutput(model_outputs, normalized) ==
    /\ raised' = GlobalOutputError(attractors, model_outputs, normalized)
    /\ global_output' =
            IF raised' = ""
            THEN GlobalOutputValue(attractors, model_outputs, normalized)
            ELSE global_output
    /\ UNCHANGED <<boolean_equations, updated_boolean_equations, same_list,
                   binary_boolean_equations, mutation_type, is_bnet_file,
                   bnet_equations, attractors>>

(* Inputs: what a solver returns, what an output-weight source holds. *)
NodeStates == {<<"int", 0>>, <<"int", 1>>, <<"str", "-">>}
PartialDicts(values) ==
    {SelectSeq(<<<<Targets[1], a>>, <<Targets[2], b>>>>, LAMBDA kv : kv[2] # <<>>) :
        a, b \in values \cup {<<>>}}
AttractorDicts == PartialDicts(NodeStates)
SolverResults == SeqsUpTo(AttractorDicts, MaxAttractors)
NoResult == {<<>>}
Weights == {<<-1>>, <<1>>}
OutputBounds == -1..1
ModelOutputs ==
    [model_outputs : {[i \in 1..Len(d) |-> <<d[i][1], d[i][2][1]>>] :
                        d \in PartialDicts(Weights)},
     min_output : OutputBounds, max_output : OutputBounds]

(***************************************************************************)
(* Spec: construction from any source, then perturbation, the codec under  *)
(* the model's mutation type with vectors of the required length, clone,   *)
(* and the attractor calculation with a solver that finds no attractor.    *)
(***************************************************************************)
Next ==
    \/ \E node_names \in NameLists, effect \in Effects :
            PerturbNodes(node_names, effect)
    \/ \E drugs \in DrugLists : ApplyPerturbations(drugs)
    \/ \E drugs \in DrugLists : AddPerturbations(drugs)
    \/ \E v \in BitVectors(RequiredLength(updated_boolean_equations, mutation_type)) :
            FromBinary(v, mutation_type)
    \/ ToBinary(mutation_type)
    \/ Clone
    \/ \E tool \in Tools, found \in NoResult : CalculateAttractors(tool, found)

Spec == Init /\ [][Next]_vars

(***************************************************************************)
(* SpecOutput: one model, the attractor calculation with every solver      *)
(* result, reset_attractors and calculate_global_output.                   *)
(***************************************************************************)
SampleTopology ==
    <<[target |-> Targets[1], activating |-> <<Targets[2]>>, inhibitory |-> <<>>],
      [target |-> Targets[2], activating |-> <<>>, inhibitory |-> <<Targets[1]>>]>>

InitOutput == Constructed(NewModel(init_from_model(SampleTopology), "mixed", <<>>))

NextOutput ==
    \/ \E tool \in Tools, found \in SolverResults : CalculateAttractors(tool, found)
    \/ ResetAttractors
    \/ \E model_outputs \in ModelOutputs, normalized \in BOOLEAN :
            CalculateGlobalOutput(model_outputs, normalized)

SpecOutput == InitOutput /\ [][NextOutput]_vars

(***************************************************************************)
(* SpecLength: construction from a topology source, then perturbation and  *)
(* from_binary under the model's mutation type with vectors of any length  *)
(* up to MaxExtraBits beyond the required one.                             *)
(***************************************************************************)
VectorsUpTo(n) == UNION {BitVectors(k) : k \in 0..n}

AnyVectors(equations, mt) == VectorsUpTo(RequiredLength(equations, mt) + MaxExtraBits)

InitLength ==
    \E t \in Topologies(MaxTotalRegs), mt \in MutationTypes :
        Constructed(NewModel(init_from_model(t), mt, <<>>))

NextLength ==
    \/ \E node_names \in NameLists, effect \in Effects :
            PerturbNodes(node_names, effect)
    \/ \E v \in AnyVectors(updated_boolean_equations, mutation_type) :
            FromBinary(v, mutation_type)

SpecLength == InitLength /\ [][NextLength]_vars

(***************************************************************************)
(* generate_mutated_lists.  picks are the values random.randint returns,   *)
(* one sequence per list; with an empty stored vector randint(0, -1)       *)
(* raises ValueError.                                                      *)
(***************************************************************************)
RECURSIVE MutatedList(_, _)
MutatedList(mutated_list, picks) ==
    IF picks = <<>> THEN mutated_list
    ELSE MutatedList([mutated_list EXCEPT ![Head(picks) + 1] = 1 - @], Tail(picks))

generate_mutated_lists(binary, picks) ==
    [m \in 1..Len(picks) |-> MutatedList(binary, picks[m])]

GenerateMutatedListsError(binary, num_mutations, num_mutations_per_list) ==
    IF num_mutations > 0 /\ num_mutations_per_list > 0 /\ Len(binary) = 0
    THEN "ValueError" ELSE ""

RandomPicks(list_length, num_mutations_per_list) ==
    [1..num_mutations_per_list -> 0..(list_length - 1)]

(* The lists a call can return in its result. *)
MutatedLists(binary, num_mutations_per_list) ==
    {generate_mutated_lists(binary, <<picks>>)[1] :
        picks \in RandomPicks(Len(binary), num_mutations_per_list)}

(* generate_mutated_lists works on copies and stores nothing. *)
GenerateMutatedLists(num_mutations, num_mutations_per_list) ==
    /\ raised' = GenerateMutatedListsError(binary_boolean_equations, num_mutations,
                                            num_mutations_per_list)
    /\ UNCHANGED <<boolean_equations, updated_boolean_equations, same_list,
                   binary_boolean_equations, mutation_type, is_bnet_file,
                   bnet_equations, attractors, global_output>>

(***************************************************************************)
(* SpecMutation: construction from a topology source, then perturbation,   *)
(* to_binary, generate_mutated_lists, and from_binary under the model's    *)
(* mutation type with a list generate_mutated_lists can return in the      *)
(* current state, when that list has the required length.                  *)
(***************************************************************************)
InitMutation ==
    \E t \in Topologies(MaxGivenRegs), mt \in MutationTypes :
        Constructed(NewModel(init_from_model(t), mt, <<>>))

NextMutation ==
    \/ \E node_names \in NameLists, effect \in Effects :
            PerturbNodes(node_names, effect)
    \/ ToBinary(mutation_type)
    \/ \E num_mutations \in 0..MaxMutations,
          num_mutations_per_list \in 0..MaxMutationsPerList :
            GenerateMutatedLists(num_mutations, num_mutations_per_list)
    \/ \E num_mutations_per_list \in 0..MaxMutationsPerList :
          \E v \in MutatedLists(binary_boolean_equations, num_mutations_per_list) :
            /\ Len(v) = RequiredLength(updated_boolean_equations, mutation_type)
            /\ FromBinary(v, mutation_type)

SpecMutation == InitMutation /\ [][NextMutation]_vars

(***************************************************************************)
(* Properties.                                                             *)
(***************************************************************************)
Equations == 1..Len(updated_boolean_equations)
ExactVectors(mt) == BitVectors(RequiredLength(updated_boolean_equations, mt))
HasZeroFlag(eq) ==
    \/ \E k \in 1..Len(eq.activating) : eq.activating[k][2] = 0
    \/ \E k \in 1..Len(eq.inhibitory) : eq.inhibitory[k][2] = 0
AllFlagsOne(eq) == ~HasZeroFlag(eq)
IsConstant(eq, value) ==
    eq = Equation(eq.target, <<<<value, 1>>>>, <<>>, <<>>, <<>>, "")

(* C1: for every mutation type and every bit vector v of the length the    *)
(* current updated_boolean_equations require under that type, from_binary  *)
(* (v, type) raises nothing and the encoding to_binary(type) then computes,*)
(* returns and stores is v.                                                *)
C1_CodecRoundTrip ==
    \A mt \in MutationTypes : \A v \in ExactVectors(mt) :
        LET decoded == Decode(updated_boolean_equations, v, mt)
        IN  /\ decoded.error = ""
            /\ Encode(decoded.equations, mt) = v

(* C1, the case: a decode has cleared a flag or set the link to "or", and  *)
(* to_binary has then stored the vector, which has a 0 in it.              *)
C1_Witness ==
    /\ \E i \in Equations :
            \/ HasZeroFlag(updated_boolean_equations[i])
            \/ updated_boolean_equations[i].link = "or"
    /\ binary_boolean_equations = Encode(updated_boolean_equations, mutation_type)
    /\ Len(binary_boolean_equations) >= 2
    /\ \E k \in 1..Len(binary_boolean_equations) : binary_boolean_equations[k] = 0

(* C2: an equation set whose regulators all have flag 1 renders to a text  *)
(* that, parsed line by line and rendered again, is the same text.         *)
RoundTripText(equations) ==
    to_bnet_format([i \in 1..Len(equations) |->
                        create_equation_from_bnet(BnetLine(equations[i]))])

C2_TextRoundTrip ==
    (\A i \in Equations : AllFlagsOne(updated_boolean_equations[i]))
    => /\ \A i \in Equations : BnetError(BnetLine(updated_boolean_equations[i])) = ""
       /\ RoundTripText(updated_boolean_equations)
            = to_bnet_format(updated_boolean_equations)

(* C3: no operation after construction changes boolean_equations.          *)
C3_BaselineImmutable == [][boolean_equations' = boolean_equations]_vars

(* C4: binary_boolean_equations is the encoding of the current             *)
(* updated_boolean_equations under the model's mutation type.              *)
C4_ChromosomeConsistent ==
    binary_boolean_equations = Encode(updated_boolean_equations, mutation_type)

(* C5: the text calculate_attractors hands to the solver when called in    *)
(* this state is the rendering of the current updated_boolean_equations    *)
(* (compared up to leading and trailing whitespace).                       *)
C5_SolverTextIsRendering ==
    Strip(SolverText) = to_bnet_format(updated_boolean_equations)

(* C6: every equation built from a topology source or parsed from a rule   *)
(* line, every equation of updated_boolean_equations after any             *)
(* perturbation, and every equation a from_binary with a vector of the     *)
(* required length yields under any mutation type, has a non-empty link    *)
(* exactly when both its regulator maps are non-empty.                     *)
LinkOk(eq) == (eq.link # "") <=> (eq.activating # <<>> /\ eq.inhibitory # <<>>)

C6_LinkInvariant ==
    /\ \A i \in 1..Len(boolean_equations) : LinkOk(boolean_equations[i])
    /\ \A i \in Equations : LinkOk(updated_boolean_equations[i])
    /\ \A mt \in MutationTypes : \A v \in ExactVectors(mt) :
            LET decoded == Decode(updated_boolean_equations, v, mt).equations
            IN  \A i \in 1..Len(decoded) : LinkOk(decoded[i])

(* C6, the case: a rule file was parsed, one equation has both groups and  *)
(* a decoded link "or", another was perturbed to a constant.               *)
C6_Witness ==
    /\ bnet_equations # <<>>
    /\ \E i \in Equations :
            /\ updated_boolean_equations[i].link = "or"
            /\ updated_boolean_equations[i].activating # <<>>
            /\ updated_boolean_equations[i].inhibitory # <<>>
    /\ \E i \in Equations : IsConstant(updated_boolean_equations[i], <<"1">>)

(* C7: perturb_nodes(node_names, effect) raises nothing, turns every       *)
(* equation whose target is named into (target, {v: 1}, {}, [], [], "")    *)
(* with v = "0" for "inhibits" and "1" otherwise, which renders as         *)
(* "target, v", and leaves every other equation as it was.                 *)
NamedIn(node_names, target) == \E k \in 1..Len(node_names) : node_names[k] = target

PerturbPost(before, after, node_names, effect) ==
    LET v == IF effect = "inhibits" THEN <<"0">> ELSE <<"1">>
    IN  /\ Len(after) = Len(before)
        /\ \A i \in 1..Len(before) :
            IF NamedIn(node_names, before[i].target)
            THEN /\ after[i] = Equation(before[i].target, <<<<v, 1>>>>, <<>>, <<>>,
                                        <<>>, "")
                 /\ BnetLine(after[i]) = before[i].target \o <<",", " ">> \o v
            ELSE after[i] = before[i]

C7_PerturbPostcondition ==
    \A node_names \in SeqsUpTo(NodeNames, MaxNames + 1), effect \in Effects :
        PerturbPost(updated_boolean_equations,
                    PerturbAll(updated_boolean_equations, node_names, effect),
                    node_names, effect)

(* C7, the case: the first node, which had regulators, is the constant 0   *)
(* and the second node still has its regulators.                           *)
C7_Witness ==
    /\ ~same_list
    /\ boolean_equations[1].activating # <<>>
    /\ boolean_equations[1].inhibitory # <<>>
    /\ IsConstant(updated_boolean_equations[1], <<"0">>)
    /\ updated_boolean_equations[2] = boolean_equations[2]
    /\ updated_boolean_equations[2].activating # <<>>

(* C8: the model clone returns has the current updated_boolean_equations   *)
(* as boolean_equations and as updated_boolean_equations, and the stored   *)
(* binary_boolean_equations as its binary_boolean_equations.               *)
C8_CloneStartState ==
    LET c == CloneOf(updated_boolean_equations, binary_boolean_equations,
                     mutation_type)
    IN  /\ c.boolean_equations = updated_boolean_equations
        /\ c.updated_boolean_equations = updated_boolean_equations
        /\ c.binary_boolean_equations = binary_boolean_equations

(* C9: calculate_global_output called with no attractors raises ValueError *)
(* and leaves global_output as it was.                                     *)
C9_NoAttractorsFails ==
    [][attractors = <<>>
       => \A model_outputs \in ModelOutputs, normalized \in BOOLEAN :
            CalculateGlobalOutput(model_outputs, normalized)
            => (raised' = "ValueError" /\ global_output' = global_output)]_vars

(* C9, the case: a global output was computed, the attractors were reset   *)
(* or recomputed to none, and the next call failed.                        *)
C9_Witness ==
    /\ raised = "ValueError"
    /\ attractors = <<>>
    /\ global_output # <<0, 1>>

(* The raw output as the claim states it, doubled and summed over the      *)
(* attractors: for each attractor, over the nodes in both the attractor    *)
(* and the weight mapping, weight * value with 0.5 for a don't-care.       *)
Value2(node_state) ==
    CASE node_state = <<"int", 0>> -> 0
      [] node_state = <<"int", 1>> -> 2
      [] OTHER -> 1

KeySet(d) == {d[k][1] : k \in 1..Len(d)}
Lookup(d, key) == (CHOOSE kv \in {d[k] : k \in 1..Len(d)} : kv[1] = key)[2]

RECURSIVE NodeSum2(_, _, _)
NodeSum2(nodes, attractor, weights) ==
    IF nodes = {} THEN 0
    ELSE LET node == CHOOSE x \in nodes : TRUE
         IN  Lookup(weights, node) * Value2(Lookup(attractor, node))
             + NodeSum2(nodes \ {node}, attractor, weights)

RECURSIVE Raw2Of(_, _, _)
Raw2Of(found, weights, n) ==
    IF n = 0 THEN 0
    ELSE NodeSum2(KeySet(found[n]) \cap KeySet(weights), found[n], weights)
         + Raw2Of(found, weights, n - 1)

Raw2(found, weights) == Raw2Of(found, weights, Len(found))

(* raw = Raw2 / (2 * count); min_output <= raw <= max_output. *)
RawInRange(found, mo) ==
    /\ mo.min_output * 2 * Len(found) <= Raw2(found, mo.model_outputs)
    /\ Raw2(found, mo.model_outputs) <= mo.max_output * 2 * Len(found)

(* out = (raw - min_output) / (max_output - min_output), within [0, 1]. *)
IsNormalizedRaw(out, found, mo) ==
    /\ out[2] > 0
    /\ out[1] * (2 * Len(found) * (mo.max_output - mo.min_output))
        = (Raw2(found, mo.model_outputs) - 2 * Len(found) * mo.min_output) * out[2]
    /\ 0 <= out[1]
    /\ out[1] <= out[2]

(* C10 as stated: with attractors and min_output <= raw <= max_output, the *)
(* normalized call raises nothing and returns and stores                   *)
(* (raw - min_output) / (max_output - min_output), a value within [0, 1].  *)
C10_Original ==
    \A mo \in ModelOutputs :
        (attractors # <<>> /\ RawInRange(attractors, mo))
        => /\ GlobalOutputError(attractors, mo, TRUE) = ""
           /\ IsNormalizedRaw(GlobalOutputValue(attractors, mo, TRUE), attractors, mo)

(* C10 as amended: the same, when also min_output < max_output.            *)
C10_NormalizedInRange ==
    \A mo \in ModelOutputs :
        (attractors # <<>> /\ RawInRange(attractors, mo)
         /\ mo.min_output < mo.max_output)
        => /\ GlobalOutputError(attractors, mo, TRUE) = ""
           /\ IsNormalizedRaw(GlobalOutputValue(attractors, mo, TRUE), attractors, mo)

(* C10, the case: two attractors, one with a don't-care state, and a       *)
(* stored output strictly between 0 and 1.                                 *)
C10_Witness ==
    /\ raised = ""
    /\ Len(attractors) = 2
    /\ \E a \in 1..2 : \E k \in 1..Len(attractors[a]) :
            attractors[a][k][2] = <<"str", "-">>
    /\ 0 < global_output[1]
    /\ global_output[1] < global_output[2]
    /\ global_output[2] = 4

(* C11: every equation a topology source or a rule line yields, and every  *)
(* equation of updated_boolean_equations in any reachable state, has       *)
(* count(activating regulators) - 1 activating operators and               *)
(* count(inhibitory regulators) - 1 inhibitory operators, none for an      *)
(* empty group.                                                            *)
OperatorCount(regulators) == IF regulators = <<>> THEN 0 ELSE Len(regulators) - 1

OperatorsOk(eq) ==
    /\ Len(eq.act_operators) = OperatorCount(eq.activating)
    /\ Len(eq.inhib_operators) = OperatorCount(eq.inhibitory)

C11_OperatorLengths ==
    /\ \A i \in 1..Len(boolean_equations) : OperatorsOk(boolean_equations[i])
    /\ \A i \in Equations : OperatorsOk(updated_boolean_equations[i])

(* The vectors shorter or longer than updated_boolean_equations require. *)
MismatchedVectors(mt) ==
    {v \in AnyVectors(updated_boolean_equations, mt) :
        Len(v) # RequiredLength(updated_boolean_equations, mt)}

SameNodes(before, after) ==
    /\ Len(after) = Len(before)
    /\ \A i \in 1..Len(before) : after[i].target = before[i].target

(* The number of bits up to and including the last link bit of the vector  *)
(* the equations require under the type; 0 when the type has no link bit   *)
(* or no equation has a link.                                              *)
LinkedEquations(equations) == {i \in 1..Len(equations) : equations[i].link # ""}

LastLinkPosition(equations, mt) ==
    IF mt = "topology" \/ LinkedEquations(equations) = {} THEN 0
    ELSE LET last == CHOOSE i \in LinkedEquations(equations) :
                        \A j \in LinkedEquations(equations) : j <= i
         IN  RequiredLength(SubSeq(equations, 1, last), mt)

(* C12 as stated: for every mutation type, from_binary with a vector       *)
(* shorter or longer than required raises no error and yields one equation *)
(* per node, each with its target.                                         *)
C12_Original ==
    \A mt \in MutationTypes : \A v \in MismatchedVectors(mt) :
        LET decoded == Decode(updated_boolean_equations, v, mt)
        IN  /\ decoded.error = ""
            /\ SameNodes(updated_boolean_equations, decoded.equations)

(* C12 as amended: a vector of another length than required that reaches   *)
(* the last link bit to be read (every longer vector, every vector under   *)
(* topology) raises no error and yields one equation per node, each with   *)
(* its target; one that ends before it (every shorter vector under         *)
(* balanced) raises IndexError, and a from_binary that raises leaves       *)
(* updated_boolean_equations as it was.                                    *)
C12_MismatchedLength ==
    /\ [](\A mt \in MutationTypes : \A v \in MismatchedVectors(mt) :
            LET decoded == Decode(updated_boolean_equations, v, mt)
            IN  IF Len(v) < LastLinkPosition(updated_boolean_equations, mt)
                THEN decoded.error = "IndexError"
                ELSE /\ decoded.error = ""
                     /\ SameNodes(updated_boolean_equations, decoded.equations))
    /\ [][raised' = "IndexError"
           => updated_boolean_equations' = updated_boolean_equations]_vars

(* C12, the case: under mixed, a short vector that reached the link bit    *)
(* has dropped a regulator of a later equation, and a shorter one has then *)
(* raised IndexError.                                                      *)
C12_Witness ==
    /\ mutation_type = "mixed"
    /\ raised = "IndexError"
    /\ LinkedEquations(updated_boolean_equations) # {}
    /\ \E i \in Equations :
            Len(updated_boolean_equations[i].activating)
                < Len(boolean_equations[i].activating)

(* C13: an equation perturb_nodes has made the constant v, which its       *)
(* placeholder key "0" or "1" tells (no regulator of a topology source has *)
(* such a name, and the codec keeps the keys), renders as "target, v"      *)
(* after any to_binary and from_binary with vectors of the required length *)
(* under the model's mutation type.                                        *)
ForcedValues == {<<"0">>, <<"1">>}

Forced(eq, v) ==
    /\ Keys(eq.activating) = <<v>>
    /\ eq.inhibitory = <<>>
    /\ eq.act_operators = <<>>
    /\ eq.inhib_operators = <<>>
    /\ eq.link = ""

C13_PerturbationPersists ==
    \A i \in Equations : \A v \in ForcedValues :
        Forced(updated_boolean_equations[i], v)
        => BnetLine(updated_boolean_equations[i])
            = updated_boolean_equations[i].target \o <<",", " ">> \o v

====
